---- MODULE Spec2Model ----
(***************************************************************************)
(* Array-embedded scapegoat trees of geky/sgtree.                          *)
(*                                                                         *)
(*   sgtree          src/sgtree.hpp                 exists-bit encoding    *)
(*   compact_sgtree  src/trees/compact_sgtree.hpp   child-present flags    *)
(*                                                  and tombstones         *)
(*                                                                         *)
(* Both keep the tree in one buffer, root at index 0, children of i at     *)
(* 2i+1 and 2i+2.  An index is an unsigned machine word in the source; it  *)
(* is represented here by its two's complement value, so (unsigned)-1 is   *)
(* -1, index arithmetic is plain integer arithmetic (the only wrapped      *)
(* value that arises is -1) and unsigned comparison is ULt.                *)
(***************************************************************************)
EXTENDS Integers, Sequences, FiniteSets, TLC

MaxKey == 2
CMaxKey == 3
MaxCount == 6
MaxErase == 1
CMaxErase == 2

SgKeys == 0 .. MaxKey
CKeys == 0 .. CMaxKey
\* the largest key of the monotone workload
TopKey == 16

TestKeys == 1 .. TopKey
Keys == SgKeys \cup CKeys \cup TestKeys
Vals == {0, 1}

VARIABLES impl, data, count, array, size, height, capacity, fault, last, erased, shadow

vars == <<impl, data, count, array, size, height, capacity, fault, last, erased, shadow>>

(***************************************************************************)
(* Unsigned words                                                          *)
(***************************************************************************)
NONE == -1

ULt(a, b) == IF (a < 0) = (b < 0) THEN a < b ELSE b < 0

(***************************************************************************)
(* maybe<pair> and buffer<entry>.  The copy constructor of maybe names a   *)
(* member _val that the struct does not have; it is read as val, the copy  *)
(* that maybe's assignment operator makes.                                 *)
(***************************************************************************)
Nil == [nil |-> TRUE, key |-> 0, val |-> 0]

Pair(k, v) == [nil |-> FALSE, key |-> k, val |-> v]

InBuf(d, i) == ULt(i, Len(d))

At(d, i) == d[i + 1]

Put(d, i, e) == [d EXCEPT ![i + 1] = e]

resize(d, nsize) == [x \in 1 .. nsize |-> IF x <= Len(d) THEN d[x] ELSE Nil]

(***************************************************************************)
(* sgtree: index arithmetic and the three navigators                       *)
(***************************************************************************)
left(i) == 2 * (i + 1) - 1

right(i) == 2 * (i + 1)

parent(i) == ((i + 1) \div 2) - 1

sibling(i) == (IF (i + 1) % 2 = 0 THEN (i + 1) + 1 ELSE (i + 1) - 1) - 1

valid(d, i) == InBuf(d, i) /\ ~At(d, i).nil

perfect(i, w) == [i |-> i, w |-> 2 * w]

validP(p) == p.w > 1

leftP(p) == [i |-> left(p.i), w |-> p.w \div 2]

rightP(p) == [i |-> right(p.i), w |-> p.w \div 2]

parentP(p) == [i |-> parent(p.i), w |-> p.w * 2]

validT(d, t) == InBuf(d, t)

RECURSIVE smallestFrom(_, _, _)
smallestFrom(d, i, p) ==
    IF valid(d, i) THEN smallestFrom(d, left(i), i) ELSE p

smallest(d, i) == smallestFrom(d, i, NONE)

RECURSIVE smallestPFrom(_, _)
smallestPFrom(i, p) ==
    IF validP(i) THEN smallestPFrom(leftP(i), i) ELSE p

smallestP(i) == smallestPFrom(i, [i |-> NONE, w |-> 1])

RECURSIVE smallestTFrom(_, _, _)
smallestTFrom(d, i, p) ==
    IF validT(d, i) THEN smallestTFrom(d, left(i), i) ELSE p

smallestT(d, i) == smallestTFrom(d, i, NONE)

RECURSIVE largestFrom(_, _, _)
largestFrom(d, i, p) ==
    IF valid(d, i) THEN largestFrom(d, right(i), i) ELSE p

largest(d, i) == largestFrom(d, i, NONE)

RECURSIVE largestTFrom(_, _, _)
largestTFrom(d, i, p) ==
    IF validT(d, i) THEN largestTFrom(d, right(i), i) ELSE p

largestT(d, i) == largestTFrom(d, i, NONE)

RECURSIVE succClimb(_, _, _)
succClimb(d, i, p) ==
    IF InBuf(d, p) /\ i # left(p) THEN succClimb(d, p, parent(p)) ELSE p

\* succ that climbs to the parent and no further
succParent(d, i) ==
    IF valid(d, right(i)) THEN smallest(d, right(i)) ELSE parent(i)

succ(d, i) ==
    IF valid(d, right(i)) THEN smallest(d, right(i))
    ELSE succClimb(d, i, parent(i))

succT(d, i) ==
    IF validT(d, right(i)) THEN smallestT(d, right(i))
    ELSE succClimb(d, i, parent(i))

RECURSIVE succPClimb(_, _, _)
succPClimb(d, i, p) ==
    IF InBuf(d, p.i) /\ i.i # left(p.i) THEN succPClimb(d, p, parentP(p)) ELSE p

succP(d, i) ==
    IF validP(rightP(i)) THEN smallestP(rightP(i))
    ELSE succPClimb(d, i, parentP(i))

RECURSIVE predClimb(_, _, _)
predClimb(d, i, p) ==
    IF InBuf(d, p) /\ i # right(p) THEN predClimb(d, p, parent(p)) ELSE p

pred(d, i) ==
    IF valid(d, left(i)) THEN largest(d, left(i))
    ELSE predClimb(d, i, parent(i))

predT(d, i) ==
    IF validT(d, left(i)) THEN largestT(d, left(i))
    ELSE predClimb(d, i, parent(i))

(***************************************************************************)
(* sgtree: lookup, weight, scapegoat                                       *)
(***************************************************************************)
RECURSIVE lookupFrom(_, _, _)
lookupFrom(d, key, i) ==
    IF ~valid(d, i) THEN i
    ELSE IF key < At(d, i).key THEN lookupFrom(d, key, left(i))
    ELSE IF At(d, i).key < key THEN lookupFrom(d, key, right(i))
    ELSE i

lookup(d, key) == lookupFrom(d, key, 0)

RECURSIVE weight(_, _)
weight(d, i) ==
    IF ~valid(d, i) THEN 0
    ELSE weight(d, left(i)) + weight(d, right(i)) + 1

\* scapegoat(i, &w): the result is the returned index and the final *w
RECURSIVE scapegoat(_, _, _)
\* a selector that returns the parent of the scapegoat when there is one
scapegoatAbove(d, i, w) ==
    LET a == w
        b == weight(d, sibling(i))
        w2 == a + b + 1
    IN  IF 2 * a > w2 \/ 2 * b > w2
        THEN IF valid(d, parent(parent(i)))
             THEN [i |-> parent(parent(i)), w |-> w2 + weight(d, sibling(parent(i))) + 1]
             ELSE [i |-> parent(i), w |-> w2]
        ELSE scapegoat(d, parent(i), w2)

scapegoat(d, i, w) ==
    LET a == w
        b == weight(d, sibling(i))
        w2 == a + b + 1
    IN  IF 2 * a > w2 \/ 2 * b > w2
        THEN [i |-> parent(i), w |-> w2]
        ELSE scapegoat(d, parent(i), w2)

(***************************************************************************)
(* sgtree: rebalance.  Every data[x] is buffer::operator[], whose assert   *)
(* aborts the program when x is outside the buffer; data[x]->key also      *)
(* asserts that the entry is not nil.  ok = FALSE records the abort.       *)
(***************************************************************************)
swap(d, a, b) == Put(Put(d, a, At(d, b)), b, At(d, a))

\* for (n = 0; n < w-1; n++) { swap(data[t], data[j]); j = pred(j); t = pred(t); }
RECURSIVE rebalanceGather(_, _, _, _, _)
rebalanceGather(d, j, t, n, w) ==
    IF ~ULt(n, w - 1) THEN [d |-> d, t |-> t, ok |-> TRUE]
    ELSE IF ~InBuf(d, t) \/ ~InBuf(d, j) THEN [d |-> d, t |-> t, ok |-> FALSE]
    ELSE LET d2 == swap(d, t, j)
         IN  rebalanceGather(d2, pred(d2, j), predT(d2, t), n + 1, w)

\* for (; n < w-1; n++) { swap(data[p], data[t]); p = succ(p); t = succ(t); }
RECURSIVE rebalanceRest(_, _, _, _, _)
rebalanceRest(d, p, t, n, w) ==
    IF ~ULt(n, w - 1) THEN [d |-> d, ok |-> TRUE]
    ELSE IF ~InBuf(d, p.i) \/ ~InBuf(d, t) THEN [d |-> d, ok |-> FALSE]
    ELSE LET d2 == swap(d, p.i, t)
         IN  rebalanceRest(d2, succP(d2, p), succT(d2, t), n + 1, w)

\* data[p] = e; p = succ(p); then the remaining entries
rebalancePlace(d, p, t, n, w, e) ==
    IF ~InBuf(d, p.i) THEN [d |-> d, ok |-> FALSE]
    ELSE LET d2 == Put(d, p.i, e)
         IN  rebalanceRest(d2, succP(d2, p), t, n, w)

\* for (n = 0; n < w-1 && data[t]->key < e->key; n++) { swap(data[p], data[t]); ... }
RECURSIVE rebalanceSpread(_, _, _, _, _, _)
rebalanceSpread(d, p, t, n, w, e) ==
    IF ~ULt(n, w - 1) THEN rebalancePlace(d, p, t, n, w, e)
    ELSE IF ~InBuf(d, t) \/ At(d, t).nil THEN [d |-> d, ok |-> FALSE]
    ELSE IF ~(At(d, t).key < e.key) THEN rebalancePlace(d, p, t, n, w, e)
    ELSE IF ~InBuf(d, p.i) THEN [d |-> d, ok |-> FALSE]
    ELSE LET d2 == swap(d, p.i, t)
         IN  rebalanceSpread(d2, succP(d2, p), succT(d2, t), n + 1, w, e)

rebalance(d, i, w, e) ==
    LET g == rebalanceGather(d, largest(d, i), largestT(d, i), 0, w)
    IN  IF ~g.ok THEN [d |-> g.d, ok |-> FALSE]
        ELSE rebalanceSpread(g.d, smallestP(perfect(i, w)), succT(g.d, g.t), 0, w, e)

\* expand(i, e) that neither rebuilds nor grows
expandStay(d, i, e) == [d |-> d, ok |-> TRUE, path |-> "grow"]

\* expand(i, e): rebuild below the scapegoat, or grow when there is none
expand(d, i, e) ==
    LET sg == scapegoat(d, i, 1)
    IN  IF valid(d, sg.i)
        THEN LET r == rebalance(d, sg.i, sg.w, e)
             IN  [d |-> r.d, ok |-> r.ok, path |-> "rebuild"]
        ELSE [d |-> resize(d, IF Len(d) # 0 THEN 2 * Len(d) + 1 ELSE 1),
              ok |-> TRUE, path |-> "grow"]

(***************************************************************************)
(* sgtree: the public operations, as functions of (data, count).  Each     *)
(* yields the new data and count, whether the call returned (ok) and which *)
(* way it took.                                                            *)
(***************************************************************************)
MaxRetry == 3

\* insert(key, val)
insert(d, c, key, val) ==
    LET i == lookup(d, key)
    IN  IF ULt(Len(d), i + 1)
        THEN LET x == expand(d, i, Pair(key, val))
             IN  [d |-> x.d, c |-> c, ok |-> x.ok, path |-> x.path, i |-> i]
        ELSE [d |-> Put(d, i, Pair(key, val)), c |-> c + 1, ok |-> TRUE,
              path |-> IF valid(d, i) THEN "hit" ELSE "inplace", i |-> i]

\* operator[](key); the call retries itself after expand, n counts the retries
RECURSIVE subscript(_, _, _, _, _)
subscript(d, c, key, n, path) ==
    LET i == lookup(d, key)
    IN  IF ULt(Len(d), i + 1)
        THEN IF n >= MaxRetry
             THEN [d |-> d, c |-> c, ok |-> FALSE, path |-> "loop", i |-> i]
             ELSE LET x == expand(d, i, Pair(key, 0))
                  IN  IF ~x.ok
                      THEN [d |-> x.d, c |-> c, ok |-> FALSE, path |-> x.path, i |-> i]
                      ELSE subscript(x.d, c + 1, key, n + 1, x.path)
        ELSE IF At(d, i).nil
        THEN [d |-> Put(d, i, Pair(key, 0)), c |-> c + 1, ok |-> TRUE,
              path |-> IF path = "" THEN "inplace" ELSE path, i |-> i]
        ELSE [d |-> d, c |-> c, ok |-> TRUE,
              path |-> IF path = "" THEN "hit" ELSE path, i |-> i]

\* map[key] = val that stores val in the parent of the slot as well
assignAbove(d, c, key, val) ==
    LET r == subscript(d, c, key, 0, "")
        e == Put(r.d, r.i, [At(r.d, r.i) EXCEPT !.val = val])
    IN  IF ~r.ok THEN r
        ELSE [r EXCEPT !.d = IF InBuf(e, parent(r.i))
                             THEN Put(e, parent(r.i), [At(e, parent(r.i)) EXCEPT !.val = val])
                             ELSE e]

\* map[key] = val: the reference operator[] returned is assigned through
assign(d, c, key, val) ==
    LET r == subscript(d, c, key, 0, "")
    IN  IF ~r.ok THEN r
        ELSE [r EXCEPT !.d = Put(r.d, r.i, [At(r.d, r.i) EXCEPT !.val = val])]

\* erase(key) without the test that the key was found
eraseUnchecked(d, c, key) ==
    LET i == lookup(d, key)
    IN  [d |-> IF InBuf(d, i) THEN Put(d, i, Nil) ELSE d, c |-> c - 1,
         ok |-> InBuf(d, i), path |-> IF valid(d, i) THEN "hit" ELSE "absent", i |-> i]

erase(d, c, key) ==
    LET i == lookup(d, key)
    IN  IF ~valid(d, i)
        THEN [d |-> d, c |-> c, ok |-> TRUE, path |-> "absent", i |-> i]
        ELSE LET j == succ(d, i)
             IN  IF ~InBuf(d, j)
                 THEN [d |-> d, c |-> c, ok |-> FALSE, path |-> "hit", i |-> i]
                 ELSE [d |-> Put(Put(d, i, At(d, j)), j, Nil), c |-> c - 1,
                       ok |-> TRUE, path |-> "hit", i |-> i]

\* find(key): the index the cursor holds, NONE for end()
find(d, key) ==
    LET i == lookup(d, key)
    IN  IF valid(d, i) THEN i ELSE NONE

(***************************************************************************)
(* compact_sgtree: nodes, index arithmetic, pure and raw navigators.       *)
(* A slot of the malloc'ed array that was never constructed holds whatever *)
(* the allocator left there (Fills).  _array[i] is an unchecked access: an *)
(* index outside the allocation is reported as OOB and the call that made  *)
(* it does not return.                                                     *)
(***************************************************************************)
AlphaNum == 1
AlphaDen == 2

OOB == NONE - 1

Node(del, l, r, k, v) ==
    [deleted |-> del, left |-> l, right |-> r, key |-> k, val |-> v]

Fills == {Node(0, FALSE, FALSE, 0, 0), Node(1, TRUE, TRUE, -1, -1)}

malloc(n, fill) == [x \in 1 .. n |-> fill]

RECURSIVE Pow(_, _)
Pow(b, n) == IF n <= 0 THEN 1 ELSE b * Pow(b, n - 1)

RECURSIVE Log2(_)
Log2(n) == IF n <= 1 THEN 0 ELSE 1 + Log2(n \div 2)

RECURSIVE puresmallest(_, _)
puresmallest(cap, i) ==
    IF ULt(left(i), cap) THEN puresmallest(cap, left(i)) ELSE i

RECURSIVE purelargest(_, _)
purelargest(cap, i) ==
    IF ULt(right(i), cap) THEN purelargest(cap, right(i)) ELSE i

RECURSIVE puresuccClimb(_, _, _)
puresuccClimb(cap, i, p) ==
    IF ULt(p, cap) /\ i # left(p) THEN puresuccClimb(cap, p, parent(p)) ELSE p

puresucc(cap, i) ==
    IF ULt(right(i), cap) THEN puresmallest(cap, right(i))
    ELSE puresuccClimb(cap, i, parent(i))

RECURSIVE purepredClimb(_, _, _)
purepredClimb(cap, i, p) ==
    IF ULt(p, cap) /\ i # right(p) THEN purepredClimb(cap, p, parent(p)) ELSE p

purepred(cap, i) ==
    IF ULt(left(i), cap) THEN purelargest(cap, left(i))
    ELSE purepredClimb(cap, i, parent(i))

RECURSIVE rawsmallest(_, _)
rawsmallest(a, i) ==
    IF ~InBuf(a, i) THEN OOB
    ELSE IF At(a, i).left THEN rawsmallest(a, left(i)) ELSE i

RECURSIVE rawlargest(_, _)
rawlargest(a, i) ==
    IF ~InBuf(a, i) THEN OOB
    ELSE IF At(a, i).right THEN rawlargest(a, right(i)) ELSE i

rawsucc(a, i) ==
    IF ~InBuf(a, i) THEN OOB
    ELSE IF At(a, i).right THEN rawsmallest(a, right(i))
    ELSE puresuccClimb(Len(a), i, parent(i))

rawpred(a, i) ==
    IF ~InBuf(a, i) THEN OOB
    ELSE IF At(a, i).left THEN rawlargest(a, left(i))
    ELSE purepredClimb(Len(a), i, parent(i))

\* while (i < _capacity && _array[i].deleted) i = _rawsucc(i);
RECURSIVE skipDeleted(_, _)
skipDeleted(a, i) ==
    IF i = OOB THEN OOB
    ELSE IF InBuf(a, i) /\ At(a, i).deleted # 0 THEN skipDeleted(a, rawsucc(a, i))
    ELSE i

csmallest(a, i) == skipDeleted(a, rawsmallest(a, i))

csucc(a, i) == skipDeleted(a, rawsucc(a, i))

\* _weigh(root): OOB when the walk reads outside the array
RECURSIVE weighFrom(_, _, _, _)
weighFrom(a, root, i, w) ==
    IF i = OOB THEN OOB
    ELSE IF ULt(root, i + 1) THEN weighFrom(a, root, csucc(a, i), w + 1)
    ELSE w

weigh(a, root) == weighFrom(a, root, csmallest(a, root), 0)

\* _scapegoat(i): [ok, sg, w, h]; ok = FALSE when the assert fails or an
\* access leaves the array
RECURSIVE scapegoatWalk(_, _, _, _)
scapegoatWalk(a, i, w, h) ==
    IF ~InBuf(a, parent(i)) THEN [ok |-> FALSE, sg |-> 0, w |-> w, h |-> h]
    ELSE LET p == parent(i)
             sw == IF At(a, p).left /\ At(a, p).right THEN weigh(a, sibling(i)) ELSE 0
             pw == sw + w + 1
         IN  IF sw = OOB THEN [ok |-> FALSE, sg |-> 0, w |-> w, h |-> h]
             ELSE IF AlphaDen * w > AlphaNum * pw + AlphaDen
             THEN [ok |-> TRUE, sg |-> p, w |-> pw, h |-> h + 1]
             ELSE scapegoatWalk(a, p, pw, h + 1)

cscapegoat(a, i) == scapegoatWalk(a, i, 1, 1)

bound(root, n) == n + root * Pow(2, Log2(n))

(***************************************************************************)
(* compact_sgtree: _expand and _rebalance.  A container value is the       *)
(* record [array, size, height, capacity].                                 *)
(***************************************************************************)
\* the loop of _expand: i walks the old array in raw order, bi the new one
RECURSIVE expandCopy(_, _, _, _, _)
expandCopy(a, n, sz, i, bi) ==
    IF i = OOB THEN [a |-> n, ok |-> FALSE]
    ELSE IF ~InBuf(a, i) THEN [a |-> n, ok |-> TRUE]
    ELSE IF At(a, i).deleted # 0 THEN expandCopy(a, n, sz, rawsucc(a, i), bi)
    ELSE IF ~InBuf(n, bi) THEN [a |-> n, ok |-> FALSE]
    ELSE expandCopy(a,
                    Put(n, bi, Node(0, ULt(left(bi), sz), ULt(right(bi), sz),
                                    At(a, i).key, At(a, i).val)),
                    sz, rawsucc(a, i), puresucc(sz, bi))

\* a size that wrapped below zero bounds no index: the first destination is
\* far outside the new array
cexpand(t, fill) ==
    LET nheight == t.height + 1
        ncapacity == Pow(2, t.height) - 1
        narray == malloc(ncapacity, fill)
        bi == IF t.size < 0 THEN Pow(2, 30) - 1 ELSE puresmallest(t.size, 0)
        r == expandCopy(t.array, narray, t.size, rawsmallest(t.array, 0), bi)
    IN  [array |-> IF r.ok THEN r.a ELSE t.array, size |-> t.size,
         height |-> IF r.ok THEN nheight ELSE t.height,
         capacity |-> IF r.ok THEN ncapacity ELSE t.capacity, ok |-> r.ok]

\* first loop of _rebalance: live pairs go to the last slots below root
RECURSIVE rebalancePack(_, _, _, _, _)
rebalancePack(a, root, wc, wi, ci) ==
    IF ci = OOB THEN [a |-> a, wi |-> wi, ok |-> FALSE]
    ELSE IF ~ULt(root, ci + 1) THEN [a |-> a, wi |-> wi, ok |-> TRUE]
    ELSE IF ~InBuf(a, ci) THEN [a |-> a, wi |-> wi, ok |-> FALSE]
    ELSE IF At(a, ci).deleted # 0 THEN rebalancePack(a, root, wc, wi, rawpred(a, ci))
    ELSE IF ~InBuf(a, wi) THEN [a |-> a, wi |-> wi, ok |-> FALSE]
    ELSE LET a2 == Put(a, wi, [At(a, wi) EXCEPT !.key = At(a, ci).key,
                                                !.val = At(a, ci).val,
                                                !.deleted = 2])
         IN  rebalancePack(a2, root, wc, purepred(wc, wi), rawpred(a2, ci))

\* second loop of _rebalance: packed pairs go to the first bc positions
RECURSIVE rebalanceLay(_, _, _, _, _, _)
rebalanceLay(a, root, wc, bc, bi, wi) ==
    IF ~ULt(root, wi + 1) THEN [a |-> a, ok |-> TRUE]
    ELSE IF bi # wi /\ (~InBuf(a, bi) \/ ~InBuf(a, wi)) THEN [a |-> a, ok |-> FALSE]
    ELSE LET a2 == IF bi # wi
                   THEN Put(a, bi, Node(0, ULt(left(bi), bc), ULt(right(bi), bc),
                                        At(a, wi).key, At(a, wi).val))
                   ELSE a
         IN  rebalanceLay(a2, root, wc, bc, puresucc(bc, bi), puresucc(wc, wi))

\* _rebalance that also resets the value held in the root of the whole tree
crebalanceRoot(a, root, w, h) ==
    LET wc == bound(root, Pow(2, h) - 1)
        bc == bound(root, w)
        g == rebalancePack(a, root, wc, purelargest(wc, root), rawlargest(a, root))
        r == rebalanceLay(g.a, root, wc, bc, puresmallest(bc, root), puresucc(wc, g.wi))
    IN  IF ~g.ok THEN [a |-> a, ok |-> FALSE]
        ELSE [r EXCEPT !.a = Put(r.a, 0, [At(r.a, 0) EXCEPT !.val = 0])]

\* _rebalance(root, w, h)
crebalance(a, root, w, h) ==
    LET wc == bound(root, Pow(2, h) - 1)
        bc == bound(root, w)
        g == rebalancePack(a, root, wc, purelargest(wc, root), rawlargest(a, root))
    IN  IF ~g.ok THEN [a |-> a, ok |-> FALSE]
        ELSE rebalanceLay(g.a, root, wc, bc, puresmallest(bc, root), puresucc(wc, g.wi))

(***************************************************************************)
(* compact_sgtree: find, operator[], erase                                 *)
(***************************************************************************)
\* find(k): the index the iterator holds, NONE for end(), OOB when the
\* descent reads outside the array
RECURSIVE cfindFrom(_, _, _)
cfindFrom(a, k, i) ==
    IF ~InBuf(a, i) THEN OOB
    ELSE IF k < At(a, i).key
    THEN IF ~At(a, i).left THEN NONE ELSE cfindFrom(a, k, left(i))
    ELSE IF At(a, i).key < k
    THEN IF ~At(a, i).right THEN NONE ELSE cfindFrom(a, k, right(i))
    ELSE IF At(a, i).deleted # 0 THEN NONE ELSE i

cfind(a, k) == cfindFrom(a, k, 0)

\* the descent of operator[]: where it stops, whether on the key itself,
\* the slot whose branch flag is to be set, and the depth counted
RECURSIVE descend(_, _, _, _)
descend(a, k, i, depth) ==
    IF ~InBuf(a, i) THEN [ok |-> FALSE, hit |-> FALSE, i |-> i, at |-> i, side |-> "", depth |-> depth]
    ELSE IF k < At(a, i).key
    THEN IF ~At(a, i).left
         THEN [ok |-> TRUE, hit |-> FALSE, i |-> left(i), at |-> i, side |-> "left", depth |-> depth]
         ELSE descend(a, k, left(i), depth + 1)
    ELSE IF At(a, i).key < k
    THEN IF ~At(a, i).right
         THEN [ok |-> TRUE, hit |-> FALSE, i |-> right(i), at |-> i, side |-> "right", depth |-> depth]
         ELSE descend(a, k, right(i), depth + 1)
    ELSE [ok |-> TRUE, hit |-> TRUE, i |-> i, at |-> i, side |-> "", depth |-> depth]

\* _size > 0 && depth > log(_size)/log(1.0/_alpha) + 2
tooDeep(sz, depth) ==
    /\ sz > 0
    /\ depth >= 2
    /\ Pow(AlphaDen, depth - 2) > sz * Pow(AlphaNum, depth - 2)

Stop(t, path, i) == [t EXCEPT !.ok = FALSE, !.path = path, !.i = i]

\* operator[](k); t carries the container and the way taken so far, n the
\* number of retries
RECURSIVE csubscript(_, _, _, _)
csubscript(t, k, fill, n) ==
    LET x == descend(t.array, k, 0, 0)
    IN  IF ~x.ok THEN Stop(t, t.path, x.i)
        ELSE IF x.hit
        THEN IF At(t.array, x.i).deleted # 0
             THEN [t EXCEPT !.array = Put(t.array, x.i,
                                [At(t.array, x.i) EXCEPT !.deleted = 0, !.key = k, !.val = 0]),
                            !.size = t.size + 1,
                            !.path = IF t.path = "" THEN "resurrect" ELSE t.path,
                            !.i = x.i]
             ELSE [t EXCEPT !.path = IF t.path = "" THEN "hit" ELSE t.path, !.i = x.i]
        ELSE IF t.size # 0 /\ tooDeep(t.size, x.depth)
        THEN LET sg == cscapegoat(t.array, parent(x.i))
             IN  IF ~sg.ok THEN Stop(t, "scapegoat", x.i)
                 ELSE LET r == crebalance(t.array, sg.sg, sg.w, sg.h)
                      IN  IF ~r.ok THEN Stop(t, "rebuild", x.i)
                          ELSE IF r.a = t.array \/ n >= MaxRetry THEN Stop(t, "loop", x.i)
                          ELSE csubscript([t EXCEPT !.array = r.a, !.path = "rebuild"],
                                          k, fill, n + 1)
        ELSE IF ~ULt(x.i, t.capacity)
        THEN LET e == cexpand(t, fill)
             IN  IF ~e.ok THEN Stop(t, "grow", x.i)
                 ELSE IF n >= MaxRetry THEN Stop(t, "loop", x.i)
                 ELSE csubscript([t EXCEPT !.array = e.array, !.height = e.height,
                                           !.capacity = e.capacity,
                                           !.path = IF t.path = "" THEN "grow" ELSE t.path],
                                 k, fill, n + 1)
        ELSE [t EXCEPT !.array = Put(Put(t.array, x.at,
                                         IF x.side = "left"
                                         THEN [At(t.array, x.at) EXCEPT !.left = TRUE]
                                         ELSE [At(t.array, x.at) EXCEPT !.right = TRUE]),
                                     x.i, Node(0, FALSE, FALSE, k, 0)),
                       !.size = t.size + 1,
                       !.path = IF t.path = "" THEN "inplace" ELSE t.path,
                       !.i = x.i]

\* map[k] = v that leaves the value map[k] found
cassignKeep(t, k, v, fill) == csubscript(t, k, fill, 0)

\* map[k] = v
cassign(t, k, v, fill) ==
    LET r == csubscript(t, k, fill, 0)
    IN  IF ~r.ok THEN r
        ELSE [r EXCEPT !.array = Put(r.array, r.i, [At(r.array, r.i) EXCEPT !.val = v])]

\* auto f = map.find(k); if (f != map.end()) map.erase(f);
cerase(t, k) ==
    LET i == cfind(t.array, k)
    IN  IF i = OOB THEN Stop(t, "find", i)
        ELSE IF i = NONE THEN [t EXCEPT !.path = "absent", !.i = i]
        ELSE [t EXCEPT !.array = Put(t.array, i, [At(t.array, i) EXCEPT !.deleted = 1]),
                       !.size = t.size - 1, !.path = "hit", !.i = i]

(***************************************************************************)
(* The program: a client constructs one container, of either class, and    *)
(* calls its operations.  fault is set when a call does not return (a      *)
(* failed assert, an access outside the array, a retry that cannot end).   *)
(* last describes the call that produced the state; shadow is the mapping  *)
(* the calls made so far should have produced; erased counts the erase     *)
(* calls.                                                                  *)
(***************************************************************************)
InitHeight == 3

Absent == NONE - 2

Start == [op |-> "new", key |-> 0, val |-> 0, path |-> ""]

NoTree == [array |-> <<>>, size |-> 0, height |-> 0, capacity |-> 0]

\* sgtree(unsigned size = 0)
InitSg ==
    /\ impl = "sgtree"
    /\ data = <<>>
    /\ count = 0
    /\ array = NoTree.array /\ size = NoTree.size
    /\ height = NoTree.height /\ capacity = NoTree.capacity

\* compact_sgtree()
InitCompact ==
    /\ impl = "compact"
    /\ data = <<>>
    /\ count = 0
    /\ \E fill \in Fills :
         array = Put(malloc(Pow(2, InitHeight) - 1, fill), 0, Node(1, FALSE, FALSE, 0, 0))
    /\ size = 0
    /\ height = InitHeight
    /\ capacity = Pow(2, InitHeight) - 1

InitRest ==
    /\ fault = FALSE
    /\ last = Start
    /\ erased = 0
    /\ shadow = [k \in Keys |-> Absent]

Init == (InitSg \/ InitCompact) /\ InitRest

Tree == [array |-> array, size |-> size, height |-> height, capacity |-> capacity,
         ok |-> TRUE, path |-> "", i |-> 0]

SgDone(r, op, key, val) ==
    /\ data' = r.d
    /\ count' = r.c
    /\ fault' = ~r.ok
    /\ last' = [op |-> op, key |-> key, val |-> val, path |-> r.path]
    /\ UNCHANGED <<impl, array, size, height, capacity>>

CDone(r, op, key, val) ==
    /\ array' = r.array
    /\ size' = r.size
    /\ height' = r.height
    /\ capacity' = r.capacity
    /\ fault' = ~r.ok
    /\ last' = [op |-> op, key |-> key, val |-> val, path |-> r.path]
    /\ UNCHANGED <<impl, data, count>>

SgInsert(k, v) ==
    /\ impl = "sgtree" /\ ~fault
    /\ count < MaxCount
    /\ SgDone(insert(data, count, k, v), "insert", k, v)
    /\ shadow' = [shadow EXCEPT ![k] = v]
    /\ UNCHANGED erased

SgAssign(k, v) ==
    /\ impl = "sgtree" /\ ~fault
    /\ SgDone(assign(data, count, k, v), "assign", k, v)
    /\ shadow' = [shadow EXCEPT ![k] = v]
    /\ UNCHANGED erased

SgSubscript(k) ==
    /\ impl = "sgtree" /\ ~fault
    /\ SgDone(subscript(data, count, k, 0, ""), "subscript", k, 0)
    /\ shadow' = [shadow EXCEPT ![k] = IF @ = Absent THEN 0 ELSE @]
    /\ UNCHANGED erased

SgErase(k) ==
    /\ impl = "sgtree" /\ ~fault
    /\ erased < MaxErase
    /\ SgDone(erase(data, count, k), "erase", k, 0)
    /\ shadow' = [shadow EXCEPT ![k] = Absent]
    /\ erased' = erased + 1

CAssign(k, v, fill) ==
    /\ impl = "compact" /\ ~fault
    /\ CDone(cassign(Tree, k, v, fill), "assign", k, v)
    /\ shadow' = [shadow EXCEPT ![k] = v]
    /\ UNCHANGED erased

CSubscript(k, fill) ==
    /\ impl = "compact" /\ ~fault
    /\ CDone(csubscript(Tree, k, fill, 0), "subscript", k, 0)
    /\ shadow' = [shadow EXCEPT ![k] = IF @ = Absent THEN 0 ELSE @]
    /\ UNCHANGED erased

CErase(k) ==
    /\ impl = "compact" /\ ~fault
    /\ erased < CMaxErase
    /\ CDone(cerase(Tree, k), "erase", k, 0)
    /\ shadow' = [shadow EXCEPT ![k] = Absent]
    /\ erased' = erased + 1

\* find(k) on sgtree; the path tells whether the cursor returned is end()
SgFind(k) ==
    /\ impl = "sgtree" /\ ~fault
    /\ SgDone([d |-> data, c |-> count, ok |-> TRUE,
               path |-> IF find(data, k) = NONE THEN "absent" ELSE "hit"],
              "find", k, 0)
    /\ UNCHANGED <<shadow, erased>>

\* find(k) on compact_sgtree
CFind(k) ==
    /\ impl = "compact" /\ ~fault
    /\ CDone(IF cfind(array, k) = OOB THEN Stop(Tree, "find", OOB)
             ELSE [Tree EXCEPT !.path = IF cfind(array, k) = NONE THEN "absent" ELSE "hit"],
             "find", k, 0)
    /\ UNCHANGED <<shadow, erased>>

NextInsert ==
    \/ \E k \in SgKeys : SgFind(k)
    \/ \E k \in CKeys : CFind(k)
    \/ \E k \in SgKeys, v \in Vals : SgInsert(k, v)
    \/ \E k \in SgKeys, v \in Vals : SgAssign(k, v)
    \/ \E k \in SgKeys : SgSubscript(k)
    \/ \E k \in CKeys, v \in Vals, fill \in Fills : CAssign(k, v, fill)
    \/ \E k \in CKeys, fill \in Fills : CSubscript(k, fill)

Next ==
    \/ NextInsert
    \/ \E k \in SgKeys : SgErase(k)
    \/ \E k \in CKeys : CErase(k)

Spec == Init /\ [][Next]_vars

SpecInsert == Init /\ [][NextInsert]_vars

\* a client that looks up, subscripts, assigns and erases a few keys
SmallKey == 1

SmallKeys == 0 .. SmallKey

NextSmall ==
    \/ \E k \in SmallKeys : SgFind(k)
    \/ \E k \in SmallKeys : CFind(k)
    \/ \E k \in SmallKeys, v \in Vals : SgAssign(k, v)
    \/ \E k \in SmallKeys : SgSubscript(k)
    \/ \E k \in SmallKeys, v \in Vals, fill \in Fills : CAssign(k, v, fill)
    \/ \E k \in SmallKeys, fill \in Fills : CSubscript(k, fill)
    \/ \E k \in SmallKeys : SgErase(k)
    \/ \E k \in SmallKeys : CErase(k)

SpecSmall == Init /\ [][NextSmall]_vars

\* deletions_test with the keys TopKey, TopKey - 1, ... in this order: every
\* key is given itself as its value, then the keys are looked up and erased
\* in the same order.
TestNext(op) ==
    IF last.op = op THEN last.key - 1
    ELSE IF (op = "assign" /\ last.op = "new") \/ (op = "erase" /\ last.op = "assign")
    THEN TopKey
    ELSE 0

TestSgFill ==
    /\ TestNext("assign") \in TestKeys
    /\ SgAssign(TestNext("assign"), TestNext("assign"))

TestCFill(fill) ==
    /\ TestNext("assign") \in TestKeys
    /\ CAssign(TestNext("assign"), TestNext("assign"), fill)

TestCDrain ==
    /\ impl = "compact" /\ ~fault
    /\ TestNext("erase") \in TestKeys
    /\ cfind(array, TestNext("erase")) # NONE
    /\ CDone(cerase(Tree, TestNext("erase")), "erase", TestNext("erase"), 0)
    /\ shadow' = [shadow EXCEPT ![TestNext("erase")] = Absent]
    /\ erased' = erased + 1

NextTest ==
    \/ TestSgFill
    \/ \E fill \in Fills : TestCFill(fill)
    \/ TestCDrain

SpecTest == Init /\ [][NextTest]_vars

\* A client of compact_sgtree that keeps a few recent keys: it stores the
\* keys 1, 2, ... in rising order, each with itself as value, and between
\* two stores may erase any key it still holds.  No key is stored twice.
LastChurn == 7

ChurnNext == size + erased + 1

ChurnPut(fill) ==
    /\ ChurnNext <= LastChurn
    /\ CAssign(ChurnNext, ChurnNext, fill)

ChurnDrop(k) ==
    /\ impl = "compact" /\ ~fault
    /\ cfind(array, k) # NONE /\ cfind(array, k) # OOB
    /\ CDone(cerase(Tree, k), "erase", k, 0)
    /\ shadow' = [shadow EXCEPT ![k] = Absent]
    /\ erased' = erased + 1

NextChurn ==
    \/ \E fill \in Fills : ChurnPut(fill)
    \/ \E k \in 1 .. LastChurn : ChurnDrop(k)

SpecChurn == Init /\ [][NextChurn]_vars

(***************************************************************************)
(* What a client observes: size(), find(k), and the cursor walk            *)
(* for (it = begin(); it != end(); ++it).  A walk over n slots that has    *)
(* not reached end() after n steps never will; it is cut one step later.   *)
(***************************************************************************)
RECURSIVE walk(_, _, _)
walk(d, i, n) ==
    IF i = NONE \/ n = 0 THEN <<>>
    ELSE <<i>> \o walk(d, succ(d, i), n - 1)

\* begin() ... end() of sgtree
iterate(d) == walk(d, smallest(d, 0), Len(d) + 1)

RECURSIVE cwalk(_, _, _)
cwalk(a, i, n) ==
    IF i = NONE \/ n = 0 THEN <<>>
    ELSE IF i = OOB THEN <<OOB>>
    ELSE <<i>> \o cwalk(a, csucc(a, i), n - 1)

\* begin() ... end() of compact_sgtree
citerate(a) == cwalk(a, csmallest(a, 0), Len(a) + 1)

\* the slots linked from i by the child flags
RECURSIVE linked(_, _)
linked(a, i) ==
    IF ~InBuf(a, i) THEN {}
    ELSE {i} \cup (IF At(a, i).left THEN linked(a, left(i)) ELSE {})
             \cup (IF At(a, i).right THEN linked(a, right(i)) ELSE {})

\* slots that hold a key: entries of sgtree, nodes (tombstones too) of compact_sgtree
Occupied(im, d, a) ==
    IF im = "sgtree" THEN {i \in 0 .. Len(d) - 1 : valid(d, i)}
    ELSE linked(a, 0)

\* slots that hold a mapping
Live(im, d, a) ==
    IF im = "sgtree" THEN Occupied(im, d, a)
    ELSE {i \in linked(a, 0) : At(a, i).deleted = 0}

KeyAt(im, d, a, i) == IF im = "sgtree" THEN At(d, i).key ELSE At(a, i).key

Size(im, c, sz) == IF im = "sgtree" THEN c ELSE sz

Visit(im, d, a) == IF im = "sgtree" THEN iterate(d) ELSE citerate(a)

\* find(k)->second, Absent for end()
FindVal(im, d, a, k) ==
    LET i == IF im = "sgtree" THEN find(d, k) ELSE cfind(a, k)
    IN  IF i = NONE THEN Absent
        ELSE IF i = OOB THEN OOB
        ELSE IF im = "sgtree" THEN At(d, i).val ELSE At(a, i).val

Found(k) == FindVal(impl, data, array, k)

FoundNext(k) == FindVal(impl, data', array', k)

RECURSIVE Below(_, _)
\* slot j lies in the subtree rooted at slot r
Below(j, r) == j = r \/ (j > r /\ Below(parent(j), r))

Strict(seq) == \A x, y \in 1 .. Len(seq) : x < y => seq[x] < seq[y]

VisitKeys ==
    LET v == Visit(impl, data, array)
    IN  [x \in 1 .. Len(v) |-> IF v[x] = OOB THEN OOB ELSE KeyAt(impl, data, array, v[x])]

(***************************************************************************)
(* The container contract.                                                 *)
(***************************************************************************)

\* C1 (round trip): after any sequence of map[k] = v, map[k] and insert(k, v)
\* on an initially empty container, find(k) of every key given a value is a
\* non-end cursor holding the last value given to k.
C1_RoundTrip ==
    ~fault => \A k \in Keys : shadow[k] # Absent => Found(k) = shadow[k]

\* C2 (occupancy consistency): whenever a public operation has returned, the
\* size (count of sgtree, _size of compact_sgtree) is the number of occupied,
\* non-tombstoned slots of the buffer.
C2_Occupancy ==
    ~fault => Size(impl, count, size) = Cardinality(Live(impl, data, array))

\* C3 (BST order): whenever a public operation has returned, every occupied
\* slot below left(i) of an occupied slot i holds a smaller key than slot i,
\* and every occupied slot below right(i) a greater one.
C3_BstOrder ==
    ~fault =>
        \A i, j \in Occupied(impl, data, array) :
            /\ Below(j, left(i)) =>
                   KeyAt(impl, data, array, j) < KeyAt(impl, data, array, i)
            /\ Below(j, right(i)) =>
                   KeyAt(impl, data, array, j) > KeyAt(impl, data, array, i)

\* C4 (reachability): whenever a public operation of sgtree has returned, the
\* parent of every occupied slot other than slot 0 is occupied.
C4_Reachable ==
    (~fault /\ impl = "sgtree") =>
        \A i \in Occupied(impl, data, array) :
            i > 0 => parent(i) \in Occupied(impl, data, array)

\* C5 (insert): when insert(k, v) returns, find(k) is a cursor to v, whether
\* k was present or not and whether the call grew the buffer or rebuilt a
\* subtree, and find of every other key gives what it gave before the call.
C5_Insert ==
    [][(last'.op = "insert" /\ ~fault') =>
          /\ FoundNext(last'.key) = last'.val
          /\ \A j \in Keys \ {last'.key} : FoundNext(j) = Found(j)]_vars

\* C6 (idempotent insert): insert(k, v) on a container that holds k leaves
\* the size as it was.
C6_InsertPresent ==
    [][(last'.op = "insert" /\ ~fault' /\ Found(last'.key) # Absent) =>
          Size(impl, count', size') = Size(impl, count, size)]_vars

\* C7 (erase inverse): erase(k) called right after insert(k, v) or
\* map[k] = v returns, and find(k) is then the end cursor, wherever k sits
\* in the tree (leaf, internal node, root, largest key).
C7_EraseInverse ==
    [][(last.op \in {"insert", "assign"} /\ last'.op = "erase" /\ last'.key = last.key) =>
          (~fault' /\ FoundNext(last'.key) = Absent)]_vars

\* C8 (erase removes one mapping): when erase of a present key k returns, the
\* size is one less, find(k) is the end cursor, and find of every other key
\* gives what it gave before the call.
C8_EraseOnly ==
    [][(last'.op = "erase" /\ ~fault' /\ Found(last'.key) # Absent) =>
          /\ Size(impl, count', size') = Size(impl, count, size) - 1
          /\ FoundNext(last'.key) = Absent
          /\ \A j \in Keys \ {last'.key} : FoundNext(j) = Found(j)]_vars

C10_Complete ==
    ~fault =>
        LET v == Visit(impl, data, array)
        IN  /\ Len(v) = Size(impl, count, size)
            /\ {v[x] : x \in 1 .. Len(v)} = Live(impl, data, array)
            /\ \A x, y \in 1 .. Len(v) : x # y => v[x] # v[y]
            /\ (Size(impl, count, size) = 0 => v = <<>>)

\* key k is stored in a slot that holds a mapping
Present(k) == \E i \in Live(impl, data, array) : KeyAt(impl, data, array, i) = k

\* the index held by the cursor find(k) returns
Cursor(k) == IF impl = "sgtree" THEN find(data, k) ELSE cfind(array, k)

\* C11 (find never mutates): find(k) returns, leaves buffer, occupancy, size
\* and capacity as they were, and its cursor is on the occupied slot whose
\* key is k when k is stored, the end cursor otherwise.
C11_FindPure ==
    [][last'.op = "find" =>
          /\ ~fault'
          /\ UNCHANGED <<data, count, array, size, height, capacity>>
          /\ IF Present(last'.key)
             THEN /\ last'.path = "hit"
                  /\ Cursor(last'.key) \in Live(impl, data, array)
                  /\ KeyAt(impl, data, array, Cursor(last'.key)) = last'.key
             ELSE last'.path = "absent" /\ Cursor(last'.key) = NONE]_vars

\* the slot the reference returned by operator[](k) designates
Ref(k) ==
    IF impl = "sgtree" THEN {subscript(data, count, k, 0, "").i}
    ELSE {csubscript(Tree, k, fill, 0).i : fill \in Fills}

\* C12 (subscript): operator[](k) returns; an absent k is then present with
\* the default value and the size is one more (also after a growth or a
\* rebuild); a present k keeps its value and the size is unchanged; the
\* reference returned designates the slot find(k) then finds.
C12_Subscript ==
    [][last'.op = "subscript" =>
          /\ ~fault'
          /\ IF Found(last'.key) = Absent
             THEN /\ FoundNext(last'.key) = 0
                  /\ Size(impl, count', size') = Size(impl, count, size) + 1
             ELSE /\ FoundNext(last'.key) = Found(last'.key)
                  /\ Size(impl, count', size') = Size(impl, count, size)
          /\ (IF impl = "sgtree" THEN find(data', last'.key)
              ELSE cfind(array', last'.key)) \in Ref(last'.key)]_vars

cLiveKeys(a) == {At(a, i).key : i \in Live("compact", <<>>, a)}

\* the keys begin() ... end() of compact_sgtree yields, in order
cVisitKeys(a) ==
    LET v == citerate(a)
    IN  [x \in 1 .. Len(v) |-> IF v[x] = OOB THEN OOB ELSE At(a, v[x]).key]

LiveKeys == {KeyAt(impl, data, array, i) : i \in Live(impl, data, array)}

\* C14 (resurrection): map[k] or map[k] = v on a key whose node is a tombstone
\* clears the flag in place; the slot holds the new pair, size grows by one,
\* find(k) returns the newly assigned value, and iteration from begin() still
\* yields all live keys in ascending order.
C14_Resurrect ==
    [][(impl = "compact" /\ last'.path = "resurrect" /\ ~fault') =>
          LET k == last'.key
              v == IF last'.op = "assign" THEN last'.val ELSE 0
              i == cfind(array', k)
          IN  /\ InBuf(array', i)
              /\ At(array, i).deleted # 0
              /\ At(array', i).deleted = 0
              /\ At(array', i).key = k /\ At(array', i).val = v
              /\ size' = size + 1
              /\ FoundNext(k) = v
              /\ LET ks == cVisitKeys(array')
                 IN  /\ Strict(ks)
                     /\ {ks[x] : x \in 1 .. Len(ks)} = cLiveKeys(array')]_vars

\* a key that was given a value and erased has just been given a new value
C14_Witness ==
    /\ impl = "compact" /\ ~fault
    /\ last.path = "resurrect" /\ last.op = "assign" /\ last.key # 0
    /\ erased > 0 /\ Found(last.key) = last.val
    /\ Cardinality(LiveKeys) > 1

\* the depth of slot i in the implicit layout, the root at depth 0
Depth(i) == Log2(i + 1)

RECURSIVE CeilLog(_, _)
\* the least c >= e with (1/alpha)^c >= n
CeilLog(n, e) ==
    IF Pow(AlphaDen, e) >= n * Pow(AlphaNum, e) THEN e ELSE CeilLog(n, e + 1)

\* ceil(log_{1/alpha}(max(size, 1))) + 2
DepthBound(sz) == CeilLog(IF sz > 1 THEN sz ELSE 1, 0) + 2

\* C15 (depth bound): after every operation that returns, the depth of every
\* slot that holds a mapping is at most ceil(log_{1/alpha}(max(size, 1))) + 2,
\* for any sequence of insertions and erasures.
C15_DepthBound ==
    ~fault => \A i \in Live(impl, data, array) :
                 Depth(i) <= DepthBound(Size(impl, count, size))

\* the number of slots of the buffer and, for compact_sgtree, the stored height
Capacity == IF impl = "sgtree" THEN Len(data) ELSE capacity

\* C16 (capacity shape): in every state the program reaches by growing, the
\* capacity is 2^h - 1 for an integer h, and the height compact_sgtree
\* stores is that h, log2(capacity + 1), after every growth step.
C16_Shape ==
    ~fault =>
        /\ Capacity = Pow(2, Log2(Capacity + 1)) - 1
        /\ impl = "compact" => /\ height = Log2(capacity + 1)
                               /\ Len(array) = capacity

RECURSIVE rwalk(_, _, _)
\* the slots operator-- visits from slot i, n at most
rwalk(d, i, n) ==
    IF i = NONE \/ n = 0 THEN <<>>
    ELSE <<i>> \o rwalk(d, pred(d, i), n - 1)

\* largest(0), then -- until the cursor is end()
riterate(d) == rwalk(d, largest(d, 0), Len(d) + 1)

Reverse(seq) == [x \in 1 .. Len(seq) |-> seq[Len(seq) + 1 - x]]

\* C17 (reverse iteration): the walk of an sgtree from the largest key by --
\* to the sentinel yields the keys in strictly descending order, the exact
\* reverse of the walk from begin() to end(), and pred(succ(i)) = i for every
\* live slot i that has a successor.
C17_Reverse ==
    (impl = "sgtree" /\ ~fault) =>
        /\ riterate(data) = Reverse(iterate(data))
        /\ \A x, y \in 1 .. Len(riterate(data)) :
               x < y => At(data, riterate(data)[x]).key > At(data, riterate(data)[y]).key
        /\ \A i \in Live(impl, data, array) :
               succ(data, i) # NONE => pred(data, succ(data, i)) = i

\* the slots of the subtree rooted at g that hold a mapping
SubSlots(im, d, a, g) == {j \in Live(im, d, a) : Below(j, g)}

\* the (key, value) pairs stored in the subtree rooted at g
SubPairs(im, d, a, g) ==
    {<<KeyAt(im, d, a, j), IF im = "sgtree" THEN At(d, j).val ELSE At(a, j).val>> :
        j \in SubSlots(im, d, a, g)}

\* the scapegoat an insertion of key k rebuilds at
Goat(k) ==
    IF impl = "sgtree" THEN scapegoat(data, lookup(data, k), 1).i
    ELSE cscapegoat(array, parent(descend(array, k, 0, 0).i)).sg

\* C18 (rebuild preserves content): when an insertion of e rebuilds the
\* subtree rooted at the scapegoat g, the pairs stored in g's subtree
\* afterwards are the live pairs stored there before plus e: none is lost,
\* overwritten or duplicated.
C18_Content ==
    [][(last'.path = "rebuild" /\ ~fault') =>
          LET k == last'.key
              v == IF last'.op = "subscript" THEN 0 ELSE last'.val
              g == Goat(k)
          IN  /\ SubPairs(impl, data', array', g)
                    = SubPairs(impl, data, array, g) \cup {<<k, v>>}
              /\ Cardinality(SubSlots(impl, data', array', g))
                    = Cardinality(SubSlots(impl, data, array, g)) + 1]_vars

RECURSIVE pwalk(_, _, _)
\* the slots the perfect navigator visits from p, n of them
pwalk(d, p, n) ==
    IF n = 0 THEN <<>>
    ELSE <<p.i>> \o pwalk(d, succP(d, p), n - 1)

\* the first w in-order positions of the perfect embedding rooted at g
PerfectSlots(d, g, w) == pwalk(d, smallestP(perfect(g, w)), w)

\* C19 (rebuild layout): when rebalance(g, w, e) of sgtree completes, exactly
\* the first w in-order positions of the perfect embedding rooted at g are
\* occupied, their keys ascending in that order, and every other slot of
\* g's subtree is empty.
C19_Layout ==
    [][(impl = "sgtree" /\ last'.path = "rebuild" /\ ~fault') =>
          LET sg == scapegoat(data, lookup(data, last'.key), 1)
              ps == PerfectSlots(data', sg.i, sg.w)
          IN  /\ \A x \in 1 .. Len(ps) : valid(data', ps[x])
              /\ \A x, y \in 1 .. Len(ps) :
                     x < y => At(data', ps[x]).key < At(data', ps[y]).key
              /\ \A j \in 0 .. Len(data') - 1 :
                     (Below(j, sg.i) /\ valid(data', j)) => \E x \in 1 .. Len(ps) : ps[x] = j]_vars

\* the number of mappings stored in the subtree rooted at g after the step
WeightNext(g) == Cardinality(SubSlots(impl, data', array', g))

\* C20 (alpha-balance after rebuild): immediately after an insertion that
\* rebuilt the subtree rooted at g, with w the number of live entries now in
\* that subtree, the subtrees of left(g) and of right(g) hold at most
\* alpha * w live entries each.
C20_Balance ==
    [][(last'.path = "rebuild" /\ ~fault') =>
          LET g == Goat(last'.key)
          IN  /\ AlphaDen * WeightNext(left(g)) <= AlphaNum * WeightNext(g)
              /\ AlphaDen * WeightNext(right(g)) <= AlphaNum * WeightNext(g)]_vars

\* the number of mappings stored in the subtree rooted at g
Weight(g) == Cardinality(SubSlots(impl, data, array, g))

\* the imbalance test of the selector at parent(c), for the ancestor c of a
\* pending leaf: sgtree counts the leaf, compact_sgtree does not
Heavy(c) ==
    IF impl = "sgtree"
    THEN LET a == Weight(c) + 1
             b == Weight(sibling(c))
         IN  2 * a > a + b + 1 \/ 2 * b > a + b + 1
    ELSE AlphaDen * Weight(c) > AlphaNum * Weight(parent(c)) + AlphaDen

RECURSIVE LowestGoat(_)
\* the parent of the first slot on the way up from c that is Heavy, NONE
\* when the way ends above the root
LowestGoat(c) ==
    IF c = 0 \/ c = NONE THEN NONE
    ELSE IF Heavy(c) THEN parent(c)
    ELSE LowestGoat(parent(c))

\* where the selector starts for key k: the miss slot in sgtree, its parent
\* in compact_sgtree
GoatStart(k) ==
    IF impl = "sgtree" THEN lookup(data, k)
    ELSE parent(descend(array, k, 0, 0).i)

GoatWeight(k) ==
    IF impl = "sgtree" THEN scapegoat(data, lookup(data, k), 1).w
    ELSE cscapegoat(array, parent(descend(array, k, 0, 0).i)).w

\* C22 (scapegoat weight): the weight returned with the scapegoat p is the
\* number of live entries stored in the subtree rooted at p, plus one for
\* the pending key in sgtree, as stored in compact_sgtree.
C22_Weight ==
    [][(last'.path = "rebuild" /\ ~fault') =>
          GoatWeight(last'.key) =
              Weight(Goat(last'.key)) + (IF impl = "sgtree" THEN 1 ELSE 0)]_vars

\* the (key, value) pairs the container holds
LivePairs(im, d, a) == SubPairs(im, d, a, 0)

\* every slot that holds a mapping is the slot the search for its key ends
\* in: the keys are in search-tree order and linked to the root
Searchable(im, d, a) ==
    \A j \in Live(im, d, a) :
        (IF im = "sgtree" THEN find(d, KeyAt(im, d, a, j))
         ELSE cfind(a, KeyAt(im, d, a, j))) = j

\* C23 (growth): a growth step sets the capacity to 2 * capacity + 1, or to 1
\* when it was 0, and the live pairs, their search-tree order and their
\* links to the root are the same after growth as before; the insertion
\* that grew the buffer adds its own pair at most.
C23_Growth ==
    [][(last'.path = "grow" /\ ~fault') =>
          /\ (IF impl = "sgtree" THEN Len(data') ELSE capacity')
                 = (IF Capacity = 0 THEN 1 ELSE 2 * Capacity + 1)
          /\ LivePairs(impl, data', array') \ {<<last'.key, last'.val>>, <<last'.key, 0>>}
                 = LivePairs(impl, data, array)
          /\ Searchable(impl, data, array) => Searchable(impl, data', array')]_vars

\* C24 (in-place insertion frame): an insertion whose miss slot i lies within
\* the buffer and that neither rebuilds nor grows writes slot i only, and in
\* compact_sgtree the child flag of parent(i); size grows by one, every other
\* slot and the capacity are unchanged.  So t[k] = k for k = 3, 1, 0, 2, 5,
\* 4, 6 fills an sgtree of capacity 7 slot by slot, three levels deep, and
\* moves no entry.
C24_Frame ==
    [][(last'.path = "inplace" /\ ~fault') =>
        /\ LET ks == <<3, 1, 0, 2, 5, 4, 6>>
               RECURSIVE fill(_)
               fill(n) ==
                   IF n = 0 THEN [d |-> resize(<<>>, Len(ks)), c |-> 0, ok |-> TRUE]
                   ELSE LET s == fill(n - 1)
                            r == assign(s.d, s.c, ks[n], ks[n])
                        IN  [d |-> r.d, c |-> r.c,
                             ok |-> /\ s.ok /\ r.ok /\ r.path = "inplace"
                                    /\ r.d = Put(s.d, lookup(s.d, ks[n]), Pair(ks[n], ks[n]))
                                    /\ r.c = n]
           IN  /\ fill(Len(ks)).ok
               /\ \A j \in 0 .. Len(ks) - 1 : valid(fill(Len(ks)).d, j)
        /\ LET k == last'.key
               v == IF last'.op = "subscript" THEN 0 ELSE last'.val
           IN  IF impl = "sgtree"
              THEN LET i == lookup(data, k)
                   IN  /\ InBuf(data, i) /\ ~valid(data, i)
                       /\ data' = Put(data, i, Pair(k, v))
                       /\ count' = count + 1
              ELSE LET x == descend(array, k, 0, 0)
                       p == At(array, x.at)
                   IN  /\ InBuf(array, x.i) /\ x.at = parent(x.i)
                       /\ array' = Put(Put(array, x.at,
                                           IF x.i = left(x.at) THEN [p EXCEPT !.left = TRUE]
                                           ELSE [p EXCEPT !.right = TRUE]),
                                       x.i, Node(0, FALSE, FALSE, k, v))
                       /\ size' = size + 1
                       /\ capacity' = capacity /\ height' = height]_vars

\* an insertion has just filled a slot below the root of a container that
\* already held a key
C24_Witness ==
    /\ ~fault /\ last.path = "inplace"
    /\ Cardinality(Live(impl, data, array)) > 1
    /\ Cursor(last.key) > 0

Rebuilt(k, v) ==
    IF impl = "sgtree"
    THEN LET sg == scapegoat(data, lookup(data, k), 1)
         IN  rebalance(data, sg.i, sg.w, Pair(k, v)).d
    ELSE LET sg == cscapegoat(array, parent(descend(array, k, 0, 0).i))
         IN  crebalance(array, sg.sg, sg.w, sg.h).a

\* the slots of buffer b, whichever container it belongs to
Slots(b) == 0 .. Len(b) - 1

C27_InBounds == impl = "sgtree" => ~fault

\* C28 (the scapegoat walk stays in the tree): whenever operator[] of
\* compact_sgtree calls _scapegoat because the miss is deeper than the depth
\* threshold, the walk finds an ancestor that fails the balance test before
\* it steps above the root: assert(_parent(i) < _capacity) never fails,
\* whatever operator[] and erase calls came before.
C28_WalkInTree == ~(impl = "compact" /\ fault /\ last.path = "scapegoat")

\* C29 (size and capacity): after every step the number of entries the
\* container reports is at most the number of slots of its buffer, and the
\* number of slots changes only in a call that grows the buffer, where it
\* becomes larger.
C29_Capacity ==
    [][/\ Size(impl, count', size') <= Capacity'
       /\ Capacity' # Capacity => last'.path = "grow" /\ Capacity' > Capacity]_vars

\* C30 (growth with no live entries): when every key has been erased, so
\* that size is 0 and only tombstones remain, and operator[](k) then grows
\* the array, the array _expand leaves has a sentinel in its root (marked
\* deleted, no child flags), the call completes, and afterwards find(k)
\* yields the value of k, k is the only live key and size is 1.
C30_EmptyGrowth ==
    [][(impl = "compact" /\ size = 0 /\ last'.path = "grow") =>
          /\ \A fill \in Fills :
                LET root == At(cexpand(Tree, fill).array, 0)
                IN  root.deleted # 0 /\ ~root.left /\ ~root.right
          /\ ~fault'
          /\ size' = 1
          /\ cfind(array', last'.key) \notin {NONE, OOB}
          /\ FoundNext(last'.key) = last'.val
          /\ cLiveKeys(array') = {last'.key}]_vars

====
